---- MODULE Spec2Model ----
(***************************************************************************)
(* Verification model of the hospital/pharmacy finder:                     *)
(*   - MemoryCache (utils/cache.ts): a Map with TTL and a size limit       *)
(*   - fetchWithRetry (utils/apiUtils.ts): retry loop with timeout         *)
(*   - getOpenStatus (utils/businessHours.ts) and calculateOpenStatus      *)
(*     (utils/realtimeStatus.ts): open/closed computation                  *)
(*   - handleMapIdle / fetchPlaces (hooks/usePlaces.ts): debounced fetch   *)
(*   - GET /api/hospitals (api/hospitals/route.ts): cached list endpoint   *)
(* Each component has its own specification (SpecCache, SpecRetry, ...)    *)
(* over the shared variables; the variables of the other components stay   *)
(* at their initial values.                                                *)
(***************************************************************************)
EXTENDS Integers, Sequences, FiniteSets, TLC

VARIABLES
    now,          \* Date.now(), in milliseconds
    cache,        \* MemoryCache.cache: Map<string, CacheEntry>, in insertion order
    lastOp,       \* history: the last MemoryCache call and what it returned
    lastSet,      \* history: per key, time and data of the last set(key, ..)
    expiredSeen,  \* history: per key, a get found the entry expired since the last set
    rOpts,        \* fetchWithRetry: options {maxRetries, retryDelay, timeout}
    rPc,          \* fetchWithRetry: "fetch" | "delay" (the two awaits), "returned" | "thrown"
    attempt,      \* fetchWithRetry: the loop variable
    elapsed,      \* fetchWithRetry: ms since the attempt's fetch was started
    lastError,    \* fetchWithRetry: the local lastError
    rResult,      \* fetchWithRetry: the response status returned or the error thrown
    fetchCalls,   \* history: number of fetch() calls made
    outcomes,     \* history: how each attempt ended, and after how many ms
    waits,        \* history: the delay() calls: after which attempt, for how many ms
    hStart,       \* getOpenStatus: today's start time of the item (kind, hour, minute)
    hEnd,         \* getOpenStatus: today's end time of the item
    hOther,       \* getOpenStatus: some other day's field of the item is truthy
    hNow,         \* getOpenStatus: currentDate, as minutes since midnight
    hPc,          \* getOpenStatus: "call" | "done"
    hResult,      \* getOpenStatus: the status returned
    tNow,         \* marker test: getCurrentMinutes()
    tPc,          \* marker test: "start" | "created" | "done"
    tPlaces,      \* marker test: todayTimeRaw of each place of createTestPlaces()
    tResults,     \* marker test: calculateOpenStatus() of each place
    timers,       \* usePlaces: the pending setTimeout timers {id, deadline, args, call}
    nextTimerId,  \* usePlaces: the id the next setTimeout returns
    debounceTimerRef,   \* usePlaces: debounceTimerRef.current (0 is null)
    currentBounds,      \* usePlaces: the currentBounds state
    lastFetchedBounds,  \* usePlaces: lastFetchedBoundsRef.current
    abortControllerRef, \* usePlaces: abortControllerRef.current, as the index of its request (0 is null)
    reqs,         \* usePlaces: the fetchPlaces calls made: args, await position, signal aborted
    isLoading,    \* usePlaces: the isLoading state
    error,        \* usePlaces: the error state
    places,       \* usePlaces: the places state, as the index of the request that set it (0: initial [])
    calls,        \* history: the handleMapIdle calls: time and arguments
    fetchLog,     \* history: the fetchPlaces calls started: time, arguments, handleMapIdle call
    gReqs,        \* GET /api/hospitals: the requests, each with its position and response
    department,             \* usePlaces with departments: the department state
    lastFetchedDepartment,  \* usePlaces with departments: lastFetchedDepartmentRef.current
    lastCenter,             \* usePlaces with departments: lastCenterRef.current
    lastZoom,               \* usePlaces with departments: lastZoomRef.current
    initialSearchDone,      \* usePlaces with departments: initialSearchDoneRef.current
    pgIn,         \* pagination: the function called, its arguments and the upstream's totalCount
    pgPc,         \* pagination: "first" | "pages" | "done"
    pgPages,      \* pagination: the page requests made, each pending, ok or failed, with its items
    pgResult      \* pagination: the number of items returned (-1: not returned)

cacheVars == <<cache, lastOp, lastSet, expiredSeen>>
retryVars == <<rOpts, rPc, attempt, elapsed, lastError, rResult, fetchCalls, outcomes, waits>>
hoursVars == <<hStart, hEnd, hOther, hNow, hPc, hResult>>
testVars == <<tNow, tPc, tPlaces, tResults>>
placesVars == <<timers, nextTimerId, debounceTimerRef, currentBounds, lastFetchedBounds,
                abortControllerRef, reqs, isLoading, error, places, calls, fetchLog>>
deptVars == <<department, lastFetchedDepartment, lastCenter, lastZoom, initialSearchDone>>
pageVars == <<pgIn, pgPc, pgPages, pgResult>>
vars == <<now, cacheVars, retryVars, hoursVars, testVars, placesVars, gReqs, deptVars,
          pageVars>>
\* what each component leaves alone
notCache == <<retryVars, hoursVars, testVars, placesVars, gReqs, deptVars,
              pageVars>>
notRetry == <<now, cacheVars, hoursVars, testVars, placesVars, gReqs, deptVars,
              pageVars>>
notHours == <<now, cacheVars, retryVars, testVars, placesVars, gReqs, deptVars,
              pageVars>>
notTest == <<now, cacheVars, retryVars, hoursVars, placesVars, gReqs, deptVars,
              pageVars>>
notPlaces == <<cacheVars, retryVars, hoursVars, testVars, gReqs, deptVars,
              pageVars>>
notRoute == <<lastOp, lastSet, expiredSeen, retryVars, hoursVars, testVars, placesVars,
              deptVars, pageVars>>

(***************************************************************************)
(* Values                                                                  *)
(***************************************************************************)
\* JavaScript null, as returned by MemoryCache.get
Null == "null"

\* JavaScript truthiness of a string (written as the sequence of its parts): only
\* the empty string is falsy
Truthy(s) == s # <<>>

(***************************************************************************)
(* MemoryCache                                                             *)
(***************************************************************************)
\* constructor arguments of the cache under check
ttlSeconds == 2
maxSize == 2
\* this.ttlMs = ttlSeconds * 1000
ttlMs == ttlSeconds * 1000

\* keys and data the callers pass; <<>> is the empty string ''
Keys == {<<>>, <<"a">>, <<"b">>}
Data == {"d1", "d2"}
\* the clock advances in these steps (ms) up to MaxNow
TickSteps == {1000, 2000}
MaxNow == 5000

\* Map.prototype.has
MapHas(c, k) == \E i \in 1..Len(c) : c[i].key = k

\* position of key k in the Map's insertion order
MapIndex(c, k) == CHOOSE i \in 1..Len(c) : c[i].key = k

\* Map.prototype.delete
MapDelete(c, k) == SelectSeq(c, LAMBDA e : e.key # k)

\* Map.prototype.set: an existing key keeps its place, a new key goes last
MapSet(c, k, e) ==
    IF MapHas(c, k) THEN [c EXCEPT ![MapIndex(c, k)] = e] ELSE Append(c, e)

\* (mutant) the TTL check with its operands swapped: never true
ExpiredSwapped(e, t, ttl) == e.timestamp - t > ttl

\* the TTL check of MemoryCache.get
Expired(e, t, ttl) == t - e.timestamp > ttl

\* MemoryCache.get returns entry.data (and not null)
CacheGetHit(c, k, t, ttl) == MapHas(c, k) /\ ~Expired(c[MapIndex(c, k)], t, ttl)

\* MemoryCache.get: the value returned
CacheGetResult(c, k, t, ttl) ==
    IF ~MapHas(c, k) THEN Null
    ELSE IF Expired(c[MapIndex(c, k)], t, ttl) THEN Null
    ELSE c[MapIndex(c, k)].data

\* MemoryCache.get: the Map afterwards (an expired entry is deleted)
CacheAfterGet(c, k, t, ttl) ==
    IF MapHas(c, k) /\ Expired(c[MapIndex(c, k)], t, ttl) THEN MapDelete(c, k) ELSE c

\* MemoryCache.set, the size limit: when full, delete this.cache.keys().next().value
\* if that key is truthy
CacheEvict(c, max) ==
    IF Len(c) >= max
    THEN IF Len(c) > 0 /\ Truthy(c[1].key) THEN MapDelete(c, c[1].key) ELSE c
    ELSE c

\* MemoryCache.set: the Map afterwards
CacheAfterSet(c, k, d, t, max) ==
    MapSet(CacheEvict(c, max), k, [key |-> k, data |-> d, timestamp |-> t])

\* MemoryCache.size
CacheSize(c) == Len(c)

\* fetchWithRetry has neither returned a response nor thrown
NoResult == [status |-> 0, error |-> Null]

NoSet == [time |-> -1, data |-> Null]
NoOp == [op |-> "none", key |-> <<>>, result |-> Null, at |-> 0, expiredBefore |-> FALSE]

InitCacheVars ==
    /\ cache = <<>>
    /\ lastOp = NoOp
    /\ lastSet = [k \in Keys |-> NoSet]
    /\ expiredSeen = [k \in Keys |-> FALSE]

\* fetchWithRetry not called
IdleRetryVars ==
    /\ rOpts = [maxRetries |-> 0, retryDelay |-> 0, timeout |-> 0]
    /\ rPc = "idle"
    /\ attempt = 0
    /\ elapsed = 0
    /\ lastError = Null
    /\ rResult = NoResult
    /\ fetchCalls = 0
    /\ outcomes = <<>>
    /\ waits = <<>>

\* getOpenStatus not called
IdleHoursVars ==
    /\ hStart = [kind |-> "undef", h |-> 0, m |-> 0]
    /\ hEnd = [kind |-> "undef", h |-> 0, m |-> 0]
    /\ hOther = FALSE
    /\ hNow = 0
    /\ hPc = "idle"
    /\ hResult = Null

\* the marker test not run
IdleTestVars ==
    /\ tNow = 0
    /\ tPc = "idle"
    /\ tPlaces = <<>>
    /\ tResults = <<>>

\* no map bounds yet (null)
NoBounds == [sw |-> [lat |-> 0, lng |-> 0], ne |-> [lat |-> 0, lng |-> 0]]

\* the usePlaces hook as mounted: useState / useRef initial values
InitPlacesVars ==
    /\ timers = {}
    /\ nextTimerId = 1
    /\ debounceTimerRef = 0
    /\ currentBounds = NoBounds
    /\ lastFetchedBounds = NoBounds
    /\ abortControllerRef = 0
    /\ reqs = <<>>
    /\ isLoading = FALSE
    /\ error = Null
    /\ places = 0
    /\ calls = <<>>
    /\ fetchLog = <<>>

\* no request to GET /api/hospitals
IdleRouteVars == gReqs = <<>>

\* neither fetchWithPagination nor fetchHospitalList is called
IdlePageVars ==
    /\ pgIn = [fn |-> "none", urlRows |-> 0, numOfRows |-> 0, maxItems |-> 0, totalCount |-> 0]
    /\ pgPc = "done"
    /\ pgPages = <<>>
    /\ pgResult = -1

\* lastCenterRef.current is null
NoCenter == [lat |-> 0, lng |-> 0]

\* usePlaces with departments: the initial state and refs
InitDeptVars ==
    /\ department = "all"
    /\ lastFetchedDepartment = "all"
    /\ lastCenter = NoCenter
    /\ lastZoom = 16
    /\ initialSearchDone = FALSE

InitCache ==
    /\ now = 0
    /\ IdleRouteVars
    /\ InitDeptVars
    /\ IdlePageVars
    /\ InitCacheVars
    /\ IdleRetryVars
    /\ IdleHoursVars
    /\ IdleTestVars
    /\ InitPlacesVars

\* cache.set(k, d)
Set(k, d) ==
    /\ cache' = CacheAfterSet(cache, k, d, now, maxSize)
    /\ lastOp' = [op |-> "set", key |-> k, result |-> Null, at |-> now,
                  expiredBefore |-> FALSE]
    /\ lastSet' = [lastSet EXCEPT ![k] = [time |-> now, data |-> d]]
    /\ expiredSeen' = [expiredSeen EXCEPT ![k] = FALSE]
    /\ UNCHANGED <<now, notCache>>

\* cache.get(k)
Get(k) ==
    /\ cache' = CacheAfterGet(cache, k, now, ttlMs)
    /\ lastOp' = [op |-> "get", key |-> k,
                  result |-> CacheGetResult(cache, k, now, ttlMs), at |-> now,
                  expiredBefore |-> expiredSeen[k]]
    /\ expiredSeen' = [expiredSeen EXCEPT ![k] =
                          @ \/ (lastSet[k] # NoSet /\ now - lastSet[k].time > ttlMs)]
    /\ UNCHANGED <<now, lastSet, notCache>>

\* cache.clear()
Clear ==
    /\ cache' = <<>>
    /\ lastOp' = [op |-> "clear", key |-> <<>>, result |-> Null, at |-> now,
                  expiredBefore |-> FALSE]
    /\ UNCHANGED <<now, lastSet, expiredSeen, notCache>>

\* time passes between calls
TickCache ==
    /\ \E d \in TickSteps : now + d <= MaxNow /\ now' = now + d
    /\ UNCHANGED <<cacheVars, notCache>>

NextCache ==
    \/ \E k \in Keys, d \in Data : Set(k, d)
    \/ \E k \in Keys : Get(k)
    \/ Clear
    \/ TickCache

SpecCache == InitCache /\ [][NextCache]_vars


(***************************************************************************)
(* fetchWithRetry                                                          *)
(***************************************************************************)
\* option values the callers pass; the defaults are maxRetries = 2, retryDelay = 500,
\* timeout = 10000
MaxRetriesTried == 2
RetryDelays == {500, 1000}
Timeouts == {10000}
\* HTTP statuses the upstream answers with
Statuses == {200, 404, 500, 503}
\* time passes in these steps (ms) while a fetch is awaited
FetchTickSteps == {5000}

Min(a, b) == IF a <= b THEN a ELSE b

\* (mutant) the loop runs once more than it should
LoopCondOffByOne(a, max) == a <= max + 1

\* the loop condition: attempt <= maxRetries
LoopCond(a, max) == a <= max

\* (mutant) every retry waits the same retryDelay
DelayMsConstant(retryDelay, a) == retryDelay

\* the argument of delay(): retryDelay * (attempt + 1)
DelayMs(retryDelay, a) == retryDelay * (a + 1)

\* the retry test of the 5xx branch: response.status >= 500 && attempt < maxRetries
RetryOnStatus(status, a, max) == status >= 500 /\ a < max

\* (mutant) an aborted attempt is not retried
CatchRetriesUnlessAborted(err, a, max) == err # "AbortError" /\ a < max

\* the retry test of the catch block: attempt < maxRetries, whatever the error
CatchRetries(err, a, max) == a < max

InitRetry ==
    /\ now = 0
    /\ IdleRouteVars
    /\ InitDeptVars
    /\ IdlePageVars
    /\ InitCacheVars
    /\ InitPlacesVars
    /\ IdleHoursVars
    /\ IdleTestVars
    /\ rOpts \in [maxRetries : 0..MaxRetriesTried, retryDelay : RetryDelays,
                  timeout : Timeouts]
    /\ attempt = 0
    /\ lastError = Null
    \* the first pass of the loop: attempt = 0 <= maxRetries, fetch() is called
    /\ rPc = "fetch"
    /\ elapsed = 0
    /\ rResult = NoResult
    /\ fetchCalls = 1
    /\ outcomes = <<>>
    /\ waits = <<>>

\* attempt++ and the loop condition: either the next fetch() or the final throw
LoopNext(err) ==
    /\ attempt' = attempt + 1
    /\ IF LoopCond(attempt + 1, rOpts.maxRetries)
       THEN /\ rPc' = "fetch"
            /\ elapsed' = 0
            /\ fetchCalls' = fetchCalls + 1
            /\ rResult' = rResult
       ELSE /\ rPc' = "thrown"
            /\ rResult' = [status |-> 0, error |-> IF err # Null THEN err ELSE "Error"]
            /\ UNCHANGED <<elapsed, fetchCalls>>

\* the body of the catch block, with err the error caught
Catch(err, kind) ==
    /\ lastError' = err
    /\ outcomes' = Append(outcomes, [kind |-> kind, ms |-> elapsed])
    /\ IF CatchRetries(err, attempt, rOpts.maxRetries)
       THEN /\ waits' = Append(waits, [after |-> attempt + 1,
                                       ms |-> DelayMs(rOpts.retryDelay, attempt)])
            /\ rPc' = "delay"
            /\ UNCHANGED <<attempt, elapsed, rResult, fetchCalls>>
       ELSE /\ waits' = waits
            /\ LoopNext(err)
    /\ UNCHANGED <<rOpts, notRetry>>

\* the awaited fetch resolves with a response before the timeout
FetchResponds(status) ==
    /\ rPc = "fetch"
    /\ elapsed < rOpts.timeout
    /\ outcomes' = Append(outcomes, [kind |-> IF status >= 500 THEN "5xx" ELSE "ok",
                                     ms |-> elapsed])
    /\ IF RetryOnStatus(status, attempt, rOpts.maxRetries)
       THEN /\ waits' = Append(waits, [after |-> attempt + 1,
                                       ms |-> DelayMs(rOpts.retryDelay, attempt)])
            /\ rPc' = "delay"
            /\ UNCHANGED rResult
       ELSE /\ rPc' = "returned"
            /\ rResult' = [status |-> status, error |-> Null]
            /\ UNCHANGED waits
    /\ UNCHANGED <<rOpts, attempt, elapsed, lastError, fetchCalls, notRetry>>

\* the awaited fetch rejects with a network error before the timeout
FetchFails ==
    /\ rPc = "fetch"
    /\ elapsed < rOpts.timeout
    /\ Catch("TypeError", "neterr")

\* the timeout timer fires: controller.abort() rejects the awaited fetch
FetchTimesOut ==
    /\ rPc = "fetch"
    /\ elapsed >= rOpts.timeout
    /\ Catch("AbortError", "timeout")

\* time passes while the fetch is pending (not beyond the timeout timer)
TickFetch ==
    /\ rPc = "fetch"
    /\ elapsed < rOpts.timeout
    /\ \E d \in FetchTickSteps : elapsed' = Min(elapsed + d, rOpts.timeout)
    /\ UNCHANGED <<rOpts, rPc, attempt, lastError, rResult, fetchCalls, outcomes, waits,
                   notRetry>>

\* the awaited delay() resolves: continue / end of the loop body
DelayDone ==
    /\ rPc = "delay"
    /\ LoopNext(lastError)
    /\ UNCHANGED <<rOpts, lastError, outcomes, waits, notRetry>>

NextRetry ==
    \/ \E st \in Statuses : FetchResponds(st)
    \/ FetchFails
    \/ FetchTimesOut
    \/ TickFetch
    \/ DelayDone

SpecRetry == InitRetry /\ [][NextRetry]_vars

\* every awaited promise settles: the fetch by its response, its failure or the
\* timeout timer, the delay by its timer
SpecRetryFair == SpecRetry /\ WF_vars(NextRetry)

RetryDone == rPc \in {"returned", "thrown"}


(***************************************************************************)
(* getOpenStatus (utils/businessHours.ts)                                  *)
(***************************************************************************)
\* A time field of an item is undefined, a string "HHMM" or a number HHMM. It is
\* written here as [kind, h, m]; JsValue gives the JavaScript value: a string as
\* its sequence of digits, a number as an integer.
TimeKinds == {"str", "num"}
\* times of day tried as start and end, as <<hour, minute>>
HourMinutes == {<<0, 0>>, <<0, 5>>, <<9, 0>>, <<18, 0>>, <<23, 59>>}
\* current minutes tried
NowMinutes == {0, 4, 5, 539, 540, 1079, 1080, 1439}

Undefined == [kind |-> "undef", h |-> 0, m |-> 0]
TimeFieldValues ==
    {Undefined} \cup {[kind |-> k, h |-> hm[1], m |-> hm[2]] : k \in TimeKinds, hm \in HourMinutes}

\* the JavaScript value of a field: digits of "HHMM", or the number HHMM
JsValue(f) ==
    IF f.kind = "str" THEN <<f.h \div 10, f.h % 10, f.m \div 10, f.m % 10>>
    ELSE f.h * 100 + f.m

\* !x is false: undefined is falsy, the number 0 is falsy, a non-empty string is truthy
JsTruthy(f) ==
    CASE f.kind = "undef" -> FALSE
      [] f.kind = "num" -> JsValue(f) # 0
      [] OTHER -> Len(JsValue(f)) > 0

RECURSIVE NumToString(_)
\* String(n) for a non-negative integer: its decimal digits
NumToString(n) == IF n < 10 THEN <<n>> ELSE Append(NumToString(n \div 10), n % 10)

\* String(timeStr)
JsString(f) == IF f.kind = "num" THEN NumToString(JsValue(f)) ELSE JsValue(f)

RECURSIVE PadStart(_, _, _)
\* String.prototype.padStart
PadStart(str, len, ch) == IF Len(str) >= len THEN str ELSE PadStart(<<ch>> \o str, len, ch)

\* String.prototype.substring(a, b)
Substring(str, a, b) == SubSeq(str, a + 1, b)

RECURSIVE ParseInt(_)
\* parseInt(digits, 10)
ParseInt(str) ==
    IF Len(str) = 1 THEN str[1]
    ELSE ParseInt(SubSeq(str, 1, Len(str) - 1)) * 10 + str[Len(str)]

\* timeToMinutes; the result is a set: {} is null, {n} is the number n
TimeToMinutes(f) ==
    IF f.kind = "undef" THEN {}
    ELSE LET str == PadStart(JsString(f), 4, 0)
         IN IF Len(str) < 4 THEN {}
            ELSE {ParseInt(Substring(str, 0, 2)) * 60 + ParseInt(Substring(str, 2, 4))}

\* hasAnyTimeInfo: some field of the item is truthy
HasAnyTimeInfo(start, end, other) == JsTruthy(start) \/ JsTruthy(end) \/ other

\* getOpenStatus(item, currentDate), with start and end the fields of today
GetOpenStatus(start, end, other, currentMinutes) ==
    IF ~JsTruthy(start) \/ ~JsTruthy(end)
    THEN IF HasAnyTimeInfo(start, end, other) THEN "holiday" ELSE "closed"
    ELSE LET startMinutes == TimeToMinutes(start)
             endMinutes == TimeToMinutes(end)
         IN IF startMinutes = {} \/ endMinutes = {} THEN "closed"
            ELSE LET s == CHOOSE x \in startMinutes : TRUE
                     e == CHOOSE x \in endMinutes : TRUE
                 IN IF e <= s
                    THEN IF currentMinutes >= s \/ currentMinutes < e
                         THEN "open" ELSE "closed"
                    ELSE IF currentMinutes >= s /\ currentMinutes < e
                         THEN "open" ELSE "closed"

InitOpenStatus ==
    /\ now = 0
    /\ IdleRouteVars
    /\ InitDeptVars
    /\ IdlePageVars
    /\ InitCacheVars
    /\ InitPlacesVars
    /\ IdleRetryVars
    /\ IdleTestVars
    /\ hStart \in TimeFieldValues
    /\ hEnd \in TimeFieldValues
    /\ hOther \in BOOLEAN
    /\ hNow \in NowMinutes
    /\ hPc = "call"
    /\ hResult = Null

\* getOpenStatus(item, currentDate) is called
CallGetOpenStatus ==
    /\ hPc = "call"
    /\ hResult' = GetOpenStatus(hStart, hEnd, hOther, hNow)
    /\ hPc' = "done"
    /\ UNCHANGED <<hStart, hEnd, hOther, hNow, notHours>>

NextOpenStatus == CallGetOpenStatus

SpecOpenStatus == InitOpenStatus /\ [][NextOpenStatus]_vars

(***************************************************************************)
(* calculateOpenStatus (utils/realtimeStatus.ts) and the marker test data   *)
(* (utils/testMarkerStatus.ts)                                             *)
(***************************************************************************)
\* minutes in a day: getCurrentMinutes() is in 0 .. DayMinutes - 1
DayMinutes == 24 * 60

Max(a, b) == IF a >= b THEN a ELSE b

\* a BusinessTimeRaw; hasTimes = FALSE stands for openMinutes / closeMinutes null
TimeRaw(open, close, holiday) ==
    [hasTimes |-> TRUE, openMinutes |-> open, closeMinutes |-> close, isHoliday |-> holiday]
TimeRawNoTimes(holiday) ==
    [hasTimes |-> FALSE, openMinutes |-> 0, closeMinutes |-> 0, isHoliday |-> holiday]

\* calculateOpenStatus(timeRaw) for a defined timeRaw, at currentMinutes
CalculateOpenStatus(timeRaw, currentMinutes) ==
    IF timeRaw.isHoliday THEN [isOpen |-> FALSE, openStatus |-> "holiday"]
    ELSE IF ~timeRaw.hasTimes THEN [isOpen |-> TRUE, openStatus |-> "open"]
    ELSE LET isOpen ==
                 IF timeRaw.closeMinutes <= timeRaw.openMinutes
                 THEN currentMinutes >= timeRaw.openMinutes
                      \/ currentMinutes < timeRaw.closeMinutes
                 ELSE currentMinutes >= timeRaw.openMinutes
                      /\ currentMinutes < timeRaw.closeMinutes
         IN [isOpen |-> isOpen, openStatus |-> IF isOpen THEN "open" ELSE "closed"]

TestPlaceIds == {"test_hospital_open", "test_hospital_closed", "test_hospital_holiday",
                 "test_pharmacy_open", "test_pharmacy_closed", "test_pharmacy_24h"}

\* createTestPlaces(): the todayTimeRaw of each place, built at currentMinutes
CreateTestPlaces(currentMinutes) ==
    [id \in TestPlaceIds |->
        CASE id = "test_hospital_open" -> TimeRaw(540, 1320, FALSE)
          [] id = "test_hospital_closed" -> TimeRaw(540, 300, FALSE)
          [] id = "test_hospital_holiday" -> TimeRawNoTimes(TRUE)
          [] id = "test_pharmacy_open" -> TimeRaw(480, 1380, FALSE)
          [] id = "test_pharmacy_closed" -> TimeRaw(540, Max(0, currentMinutes - 60), FALSE)
          [] OTHER -> TimeRaw(0, 0, FALSE)]

InitTest ==
    /\ now = 0
    /\ IdleRouteVars
    /\ InitDeptVars
    /\ IdlePageVars
    /\ InitCacheVars
    /\ InitPlacesVars
    /\ IdleRetryVars
    /\ IdleHoursVars
    /\ tNow \in 0..(DayMinutes - 1)
    /\ tPc = "start"
    /\ tPlaces = <<>>
    /\ tResults = <<>>

\* runMarkerStatusTest: const testPlaces = createTestPlaces()
RunCreate ==
    /\ tPc = "start"
    /\ tPlaces' = CreateTestPlaces(tNow)
    /\ tPc' = "created"
    /\ UNCHANGED <<tNow, tResults, notTest>>

\* runMarkerStatusTest: calculateOpenStatus(place.todayTimeRaw) for each place
RunCalculate ==
    /\ tPc = "created"
    /\ tResults' = [id \in TestPlaceIds |-> CalculateOpenStatus(tPlaces[id], tNow)]
    /\ tPc' = "done"
    /\ UNCHANGED <<tNow, tPlaces, notTest>>

NextTest == RunCreate \/ RunCalculate

SpecTest == InitTest /\ [][NextTest]_vars


(***************************************************************************)
(* usePlaces: handleMapIdle, the debounce timer and fetchPlaces            *)
(***************************************************************************)
DEBOUNCE_MS == 300
\* MIN_MOVE_THRESHOLD = 0.1, in percent
MIN_MOVE_THRESHOLD_PCT == 10

\* at most this many handleMapIdle calls, and the clock stops at MaxIdleNow
MaxCalls == 3
MaxIdleNow == 800
\* the clock advances in these steps (ms)
IdleTickSteps == {100, 200}

Bounds(swLat, swLng, neLat, neLng) ==
    [sw |-> [lat |-> swLat, lng |-> swLng], ne |-> [lat |-> neLat, lng |-> neLng]]
\* map bounds the map reports: the second is the first moved by 5 % of its
\* width, the third is the first moved by half its size
MapBoundsTried == {Bounds(100, 100, 120, 120), Bounds(100, 101, 120, 121),
                   Bounds(110, 110, 130, 130)}
CenterOf(b) == [lat |-> (b.sw.lat + b.ne.lat) \div 2, lng |-> (b.sw.lng + b.ne.lng) \div 2]
\* the zoom level the map reports with each bounds
ZoomOf(b) == IF b.sw.lat = 100 THEN 16 ELSE 14
\* the arguments of a handleMapIdle call
IdleArgs == {[center |-> CenterOf(b), bounds |-> b, zoom |-> ZoomOf(b)] : b \in MapBoundsTried}

Abs(x) == IF x < 0 THEN -x ELSE x

\* shouldRefetch(prev, next): the centre moved by more than MIN_MOVE_THRESHOLD of
\* the previous bounds' height or width. Centres are sums / 2: both sides are
\* doubled, and multiplied by 100 for the percentage.
ShouldRefetch(prev, next) ==
    IF prev = NoBounds THEN TRUE
    ELSE LET prevWidth == prev.ne.lng - prev.sw.lng
             prevHeight == prev.ne.lat - prev.sw.lat
             movedLat2 == Abs((next.ne.lat + next.sw.lat) - (prev.ne.lat + prev.sw.lat))
             movedLng2 == Abs((next.ne.lng + next.sw.lng) - (prev.ne.lng + prev.sw.lng))
         IN \/ 100 * movedLat2 > 2 * prevHeight * MIN_MOVE_THRESHOLD_PCT
            \/ 100 * movedLng2 > 2 * prevWidth * MIN_MOVE_THRESHOLD_PCT

\* (mutant) the pending timer is not cancelled
ClearTimeoutForgotten(ts, id) == ts

\* clearTimeout(id): the timer with that id, if still pending, is removed
ClearTimeout(ts, id) == {t \in ts : t.id # id}

\* fetchPlaces(center, bounds, zoom), up to its first await: the previous
\* controller is aborted, a new one made, isLoading set and error cleared, and
\* the two fetches are started
FetchPlacesStart(args, call) ==
    /\ reqs' = Append(
          IF abortControllerRef # 0
          THEN [reqs EXCEPT ![abortControllerRef].aborted = TRUE]
          ELSE reqs,
          [args |-> args, pc |-> "fetch", aborted |-> FALSE])
    /\ abortControllerRef' = Len(reqs) + 1
    /\ isLoading' = TRUE
    /\ error' = Null
    /\ fetchLog' = Append(fetchLog, [at |-> now, args |-> args, call |-> call])

\* handleMapIdle(center, bounds, zoom)
HandleMapIdle(args) ==
    /\ Len(calls) < MaxCalls
    /\ calls' = Append(calls, [at |-> now, args |-> args])
    /\ currentBounds' = args.bounds
    /\ LET cleared == IF debounceTimerRef # 0
                      THEN ClearTimeout(timers, debounceTimerRef) ELSE timers
       IN IF ~ShouldRefetch(lastFetchedBounds, args.bounds)
          THEN /\ timers' = cleared
               /\ UNCHANGED <<nextTimerId, debounceTimerRef>>
          ELSE /\ timers' = cleared \cup {[id |-> nextTimerId, deadline |-> now + DEBOUNCE_MS,
                                          args |-> args, call |-> Len(calls) + 1]}
               /\ debounceTimerRef' = nextTimerId
               /\ nextTimerId' = nextTimerId + 1
    /\ UNCHANGED <<now, lastFetchedBounds, abortControllerRef, reqs, isLoading, error,
                   places, fetchLog, notPlaces>>

\* a debounce timer fires: fetchPlaces(center, bounds, zoom)
TimerFires ==
    \E t \in timers :
        /\ now >= t.deadline
        /\ timers' = timers \ {t}
        /\ FetchPlacesStart(t.args, t.call)
        /\ UNCHANGED <<now, nextTimerId, debounceTimerRef, currentBounds, lastFetchedBounds,
                       places, calls, notPlaces>>

\* (mutant) the responses of an aborted request are taken like any other
AwaitingIgnoringAbort(r, pc) == r \in 1..Len(reqs) /\ reqs[r].pc = pc

\* a request still awaited whose signal has not been aborted
Awaiting(r, pc) == r \in 1..Len(reqs) /\ reqs[r].pc = pc /\ ~reqs[r].aborted

\* the finally block
Finally == isLoading' = FALSE

\* both fetches of request r resolve: on to the two json() calls
FetchesResolve(r) ==
    /\ Awaiting(r, "fetch")
    /\ reqs' = [reqs EXCEPT ![r].pc = "json"]
    /\ UNCHANGED <<now, timers, nextTimerId, debounceTimerRef, currentBounds,
                   lastFetchedBounds, abortControllerRef, isLoading, error, places, calls,
                   fetchLog, notPlaces>>

\* both json() calls of request r resolve: setPlaces, lastFetchedBoundsRef, finally
JsonResolves(r) ==
    /\ Awaiting(r, "json")
    /\ reqs' = [reqs EXCEPT ![r].pc = "done"]
    /\ places' = r
    /\ lastFetchedBounds' = reqs[r].args.bounds
    /\ Finally
    /\ UNCHANGED <<now, timers, nextTimerId, debounceTimerRef, currentBounds,
                   abortControllerRef, error, calls, fetchLog, notPlaces>>

\* a fetch or a json() of request r rejects with an error that is no AbortError:
\* setError, finally
RequestFails(r) ==
    /\ Awaiting(r, "fetch") \/ Awaiting(r, "json")
    /\ reqs' = [reqs EXCEPT ![r].pc = "done"]
    /\ error' = "load failed"
    /\ Finally
    /\ UNCHANGED <<now, timers, nextTimerId, debounceTimerRef, currentBounds,
                   lastFetchedBounds, abortControllerRef, places, calls, fetchLog, notPlaces>>

\* the awaited promise of an aborted request r rejects with an AbortError:
\* return from the catch block, finally
AbortRejects(r) ==
    /\ r \in 1..Len(reqs)
    /\ reqs[r].aborted
    /\ reqs[r].pc \in {"fetch", "json"}
    /\ reqs' = [reqs EXCEPT ![r].pc = "done"]
    /\ Finally
    /\ UNCHANGED <<now, timers, nextTimerId, debounceTimerRef, currentBounds,
                   lastFetchedBounds, abortControllerRef, error, places, calls, fetchLog,
                   notPlaces>>

\* time passes, but not beyond the deadline of a pending timer
TickIdle ==
    /\ \E d \in IdleTickSteps :
          /\ now + d <= MaxIdleNow
          /\ \A t \in timers : now + d <= t.deadline
          /\ now' = now + d
    /\ UNCHANGED <<placesVars, notPlaces>>

InitIdle ==
    /\ now = 0
    /\ IdleRouteVars
    /\ InitDeptVars
    /\ IdlePageVars
    /\ InitCacheVars
    /\ IdleRetryVars
    /\ IdleHoursVars
    /\ IdleTestVars
    /\ InitPlacesVars

NextIdle ==
    \/ \E a \in IdleArgs : HandleMapIdle(a)
    \/ TimerFires
    \/ \E r \in 1..Len(reqs) : FetchesResolve(r)
    \/ \E r \in 1..Len(reqs) : JsonResolves(r)
    \/ \E r \in 1..Len(reqs) : RequestFails(r)
    \/ \E r \in 1..Len(reqs) : AbortRejects(r)
    \/ TickIdle

SpecIdle == InitIdle /\ [][NextIdle]_vars


(***************************************************************************)
(* usePlaces with departments (the later hook): handleMapIdle,             *)
(* handleDepartmentChange and fetchPlaces                                  *)
(***************************************************************************)
\* DEBOUNCE_MS = 500 and MIN_MOVE_THRESHOLD = 0.25 (in percent) of this hook
DEBOUNCE_MS_DEPT == 500
MIN_MOVE_THRESHOLD_DEPT_PCT == 25

\* at most this many handleMapIdle and handleDepartmentChange calls
MaxDeptCalls == 3
\* values of MedicalDepartment
Departments == {"all", "D001"}
\* the clock advances in these steps (ms) and stops at MaxDeptNow
DeptTickSteps == {250}
MaxDeptNow == 1000

notDept == <<cacheVars, retryVars, hoursVars, testVars, gReqs, pageVars>>

\* shouldRefetch(prev, next) of this hook
ShouldRefetchDept(prev, next) ==
    IF prev = NoBounds THEN TRUE
    ELSE LET prevWidth == prev.ne.lng - prev.sw.lng
             prevHeight == prev.ne.lat - prev.sw.lat
             movedLat2 == Abs((next.ne.lat + next.sw.lat) - (prev.ne.lat + prev.sw.lat))
             movedLng2 == Abs((next.ne.lng + next.sw.lng) - (prev.ne.lng + prev.sw.lng))
         IN \/ 100 * movedLat2 > 2 * prevHeight * MIN_MOVE_THRESHOLD_DEPT_PCT
            \/ 100 * movedLng2 > 2 * prevWidth * MIN_MOVE_THRESHOLD_DEPT_PCT

\* the arguments of a fetchPlaces(center, bounds, zoom, dept) call
FetchArgs(center, bounds, zoom, dept) ==
    [center |-> center, bounds |-> bounds, zoom |-> zoom, dept |-> dept]

\* handleMapIdle(center, bounds, zoom): the first search is made at once, later
\* ones through the debounce timer, with the department of this render
HandleMapIdleDept(a) ==
    /\ Len(calls) < MaxDeptCalls
    /\ LET args == FetchArgs(a.center, a.bounds, a.zoom, department)
           cleared == IF debounceTimerRef # 0
                      THEN ClearTimeout(timers, debounceTimerRef) ELSE timers
       IN /\ calls' = Append(calls, [at |-> now, args |-> args])
          /\ currentBounds' = a.bounds
          /\ lastCenter' = a.center
          /\ lastZoom' = a.zoom
          /\ IF ~initialSearchDone
             THEN /\ timers' = cleared
                  /\ FetchPlacesStart(args, Len(calls) + 1)
                  /\ UNCHANGED <<nextTimerId, debounceTimerRef>>
             ELSE IF ~ShouldRefetchDept(lastFetchedBounds, a.bounds)
             THEN /\ timers' = cleared
                  /\ UNCHANGED <<nextTimerId, debounceTimerRef, abortControllerRef, reqs,
                                 isLoading, error, fetchLog>>
             ELSE /\ timers' = cleared \cup {[id |-> nextTimerId,
                                              deadline |-> now + DEBOUNCE_MS_DEPT,
                                              args |-> args, call |-> Len(calls) + 1]}
                  /\ debounceTimerRef' = nextTimerId
                  /\ nextTimerId' = nextTimerId + 1
                  /\ UNCHANGED <<abortControllerRef, reqs, isLoading, error, fetchLog>>
    /\ UNCHANGED <<now, lastFetchedBounds, places, department, lastFetchedDepartment,
                   initialSearchDone, notDept>>

\* handleDepartmentChange(dept)
HandleDepartmentChange(dept) ==
    /\ Len(calls) < MaxDeptCalls
    /\ department' = dept
    /\ LET center == lastCenter
           bounds == IF currentBounds # NoBounds THEN currentBounds ELSE lastFetchedBounds
           args == FetchArgs(center, bounds, lastZoom, dept)
       IN /\ calls' = Append(calls, [at |-> now, args |-> args])
          /\ IF dept # lastFetchedDepartment /\ center # NoCenter /\ bounds # NoBounds
             THEN FetchPlacesStart(args, Len(calls) + 1)
             ELSE UNCHANGED <<abortControllerRef, reqs, isLoading, error, fetchLog>>
    /\ UNCHANGED <<now, timers, nextTimerId, debounceTimerRef, currentBounds,
                   lastFetchedBounds, places, lastFetchedDepartment, lastCenter, lastZoom,
                   initialSearchDone, notDept>>

\* both json() calls of request r resolve: setPlaces, the refs of the last search,
\* finally
JsonResolvesDept(r) ==
    /\ Awaiting(r, "json")
    /\ reqs' = [reqs EXCEPT ![r].pc = "done"]
    /\ places' = r
    /\ lastFetchedBounds' = reqs[r].args.bounds
    /\ lastFetchedDepartment' = reqs[r].args.dept
    /\ lastCenter' = reqs[r].args.center
    /\ lastZoom' = IF reqs[r].args.zoom # 0 THEN reqs[r].args.zoom ELSE 16
    /\ initialSearchDone' = TRUE
    /\ Finally
    /\ UNCHANGED <<now, timers, nextTimerId, debounceTimerRef, currentBounds,
                   abortControllerRef, error, calls, fetchLog, department, notDept>>

\* time passes, but not beyond the deadline of a pending timer
TickDept ==
    /\ \E d \in DeptTickSteps :
          /\ now + d <= MaxDeptNow
          /\ \A t \in timers : now + d <= t.deadline
          /\ now' = now + d
    /\ UNCHANGED <<placesVars, deptVars, notDept>>

InitDept ==
    /\ now = 0
    /\ IdleRouteVars
    /\ InitDeptVars
    /\ IdlePageVars
    /\ InitCacheVars
    /\ IdleRetryVars
    /\ IdleHoursVars
    /\ IdleTestVars
    /\ InitPlacesVars

NextDept ==
    \/ \E a \in IdleArgs : HandleMapIdleDept(a)
    \/ \E d \in Departments : HandleDepartmentChange(d)
    \/ TimerFires
    \/ \E r \in 1..Len(reqs) : FetchesResolve(r)
    \/ \E r \in 1..Len(reqs) : JsonResolvesDept(r)
    \/ \E r \in 1..Len(reqs) : RequestFails(r)
    \/ \E r \in 1..Len(reqs) : AbortRejects(r)
    \/ TickDept

SpecDept == InitDept /\ [][NextDept]_vars

(***************************************************************************)
(* GET /api/hospitals (api/hospitals/route.ts) over hospitalListCache      *)
(***************************************************************************)
\* hospitalListCache = new MemoryCache(60, 50)
LIST_TTL_SECONDS == 60
LIST_MAX_SIZE == 50
ListTtlMs == LIST_TTL_SECONDS * 1000

\* at most this many requests; the clock starts at 17:59:00 (ms since local
\* midnight) and advances MaxRouteTicks times by RouteTickMs
MaxRequests == 2
MaxRouteTicks == 3
RouteTickMs == 30 * 1000
RouteStart == (17 * 60 + 59) * 60 * 1000

\* now.getHours() * 60 + now.getMinutes()
CurrentMinutes(t) == (t \div (60 * 1000)) % DayMinutes

\* coordinates of the requests, in thousandths of a degree
LatsTried == {37561, 37564, 37566}
LngsTried == {126978}

\* x.toFixed(2) of a coordinate given in thousandths: hundredths, rounded
ToFixed2(x) == (x + 5) \div 10

\* MemoryCache.createLocationKey(lat, lng, 2): `${roundedLat},${roundedLng}`
CreateLocationKey(lat, lng) == <<ToFixed2(lat), ",", ToFixed2(lng)>>

\* time fields of the registry's items
Hhmm(kind, h, m) == [kind |-> kind, h |-> h, m |-> m]
\* what the registry holds for the district: coordinates, distance from the
\* user (calculateDistance, here given) and today's dutyTime fields
RegistryItems ==
    << [hpid |-> "H1", hasCoords |-> TRUE, lat |-> 1, lng |-> 1, distance |-> 120,
        start |-> Hhmm("str", 9, 0), end |-> Hhmm("str", 18, 0)],
       [hpid |-> "H2", hasCoords |-> TRUE, lat |-> 2, lng |-> 2, distance |-> 80,
        start |-> Hhmm("num", 0, 0), end |-> Hhmm("num", 0, 0)],
       [hpid |-> "H3", hasCoords |-> TRUE, lat |-> 3, lng |-> 3, distance |-> 0,
        start |-> Undefined, end |-> Undefined],
       [hpid |-> "H4", hasCoords |-> TRUE, lat |-> 1, lng |-> 1, distance |-> 120,
        start |-> Hhmm("num", 9, 0), end |-> Hhmm("num", 18, 0)],
       [hpid |-> "H5", hasCoords |-> FALSE, lat |-> 0, lng |-> 0, distance |-> 0,
        start |-> Hhmm("str", 9, 0), end |-> Hhmm("str", 18, 0)] >>

\* parseTimeToMinutes; the result is a set: {} is null, {n} is the number n
ParseTimeToMinutes(f) ==
    IF f.kind = "undef" \/ (f.kind = "str" /\ JsValue(f) = <<>>) THEN {}
    ELSE LET str == PadStart(JsString(f), 4, 0)
         IN {ParseInt(Substring(str, 0, 2)) * 60 + ParseInt(Substring(str, 2, 4))}

\* getStatusAndTimeRaw(startTime, endTime), at currentMinutes
GetStatusAndTimeRaw(startTime, endTime, currentMinutes) ==
    LET open == ParseTimeToMinutes(startTime)
        close == ParseTimeToMinutes(endTime)
    IN IF open = {} \/ close = {}
       THEN [isOpen |-> FALSE, openStatus |-> "holiday", todayTimeRaw |-> TimeRawNoTimes(TRUE)]
       ELSE LET openMinutes == CHOOSE x \in open : TRUE
                closeMinutes == CHOOSE x \in close : TRUE
                isOpen == IF closeMinutes <= openMinutes
                          THEN currentMinutes >= openMinutes \/ currentMinutes < closeMinutes
                          ELSE currentMinutes >= openMinutes /\ currentMinutes < closeMinutes
            IN [isOpen |-> isOpen, openStatus |-> IF isOpen THEN "open" ELSE "closed",
                todayTimeRaw |-> TimeRaw(openMinutes, closeMinutes, FALSE)]

\* mapItemToPlace(item, lat, lng) for an item with coordinates, at time t
MapItemToPlace(item, t) ==
    LET st == GetStatusAndTimeRaw(item.start, item.end, CurrentMinutes(t))
    IN [id |-> item.hpid, lat |-> item.lat, lng |-> item.lng, distance |-> item.distance,
        isOpen |-> st.isOpen, openStatus |-> st.openStatus, todayTimeRaw |-> st.todayTimeRaw]

\* hospitals.map(mapItemToPlace).filter(place !== null): items without
\* coordinates map to null
MapItems(items, t) ==
    LET withCoords == SelectSeq(items, LAMBDA it : it.hasCoords)
    IN [i \in 1..Len(withCoords) |-> MapItemToPlace(withCoords[i], t)]

Infinity == 1000 * 1000 * 1000
\* a.distance || Infinity
DistanceKey(pl) == IF pl.distance = 0 THEN Infinity ELSE pl.distance

RECURSIVE InsertByDistance(_, _)
\* pl put behind every place that is not farther (the sort is stable)
InsertByDistance(sorted, pl) ==
    IF sorted = <<>> THEN <<pl>>
    ELSE IF DistanceKey(sorted[Len(sorted)]) <= DistanceKey(pl) THEN Append(sorted, pl)
    ELSE Append(InsertByDistance(SubSeq(sorted, 1, Len(sorted) - 1), pl), sorted[Len(sorted)])

RECURSIVE SortByDistance(_)
\* places.sort((a, b) => (a.distance || Infinity) - (b.distance || Infinity))
SortByDistance(pls) ==
    IF pls = <<>> THEN <<>>
    ELSE InsertByDistance(SortByDistance(SubSeq(pls, 1, Len(pls) - 1)), pls[Len(pls)])

RECURSIVE RemoveDuplicatesByCoords(_)
\* removeDuplicatesByCoords: the first place of each (lat, lng) is kept
RemoveDuplicatesByCoords(pls) ==
    IF pls = <<>> THEN <<>>
    ELSE LET init == SubSeq(pls, 1, Len(pls) - 1)
             last == pls[Len(pls)]
         IN IF \E i \in 1..Len(init) : init[i].lat = last.lat /\ init[i].lng = last.lng
            THEN RemoveDuplicatesByCoords(init)
            ELSE Append(RemoveDuplicatesByCoords(init), last)

\* (mutant) an empty cached list is taken for a miss
JsTruthyArrayNonEmpty(a) == Len(a) > 0

\* if (cachedData), for cachedData an array: every array is truthy, also []
JsTruthyArray(a) == TRUE

NoResponse == [success |-> FALSE, cached |-> FALSE, count |-> 0, data |-> <<>>]

\* history: the number of requests answered so far
DoneCount == Cardinality({q \in 1..Len(gReqs) : gReqs[q].pc = "done"})

InitRoute ==
    /\ now = RouteStart
    /\ InitCacheVars
    /\ IdleRetryVars
    /\ IdleHoursVars
    /\ IdleTestVars
    /\ InitPlacesVars
    /\ InitDeptVars
    /\ IdlePageVars
    /\ gReqs = <<>>

\* GET(request), up to its first await: the cache lookup, and either the cached
\* answer or the call of reverseGeocode
GetStart(lat, lng) ==
    /\ Len(gReqs) < MaxRequests
    /\ LET key == CreateLocationKey(lat, lng)
           hit == /\ CacheGetHit(cache, key, now, ListTtlMs)
                  /\ JsTruthyArray(CacheGetResult(cache, key, now, ListTtlMs))
           held == \E i \in 1..Len(cache) :
                       cache[i].key = key /\ now - cache[i].timestamp <= ListTtlMs
           heldData == IF held THEN cache[MapIndex(cache, key)].data ELSE <<>>
           base == [lat |-> lat, lng |-> lng, key |-> key, servedAt |-> now,
                    held |-> held, heldData |-> heldData, upstreamFailed |-> FALSE,
                    startAt |-> DoneCount, doneAt |-> IF hit THEN DoneCount + 1 ELSE 0]
       IN /\ cache' = CacheAfterGet(cache, key, now, ListTtlMs)
          /\ gReqs' = Append(gReqs,
                IF hit
                THEN LET cachedData == CacheGetResult(cache, key, now, ListTtlMs)
                     IN base @@ [pc |-> "done", geocodeCalls |-> 0, registryCalls |-> 0,
                                 response |-> [success |-> TRUE, cached |-> TRUE,
                                               count |-> Len(cachedData),
                                               data |-> cachedData]]
                ELSE base @@ [pc |-> "geocode", geocodeCalls |-> 1, registryCalls |-> 0,
                              response |-> NoResponse])
    /\ UNCHANGED <<now, notRoute>>

\* reverseGeocode returns: null ends the request, an address starts the three
\* fetchHospitalList calls of fetchHospitalsByAddress
GeocodeReturns(r, found) ==
    /\ r \in 1..Len(gReqs)
    /\ gReqs[r].pc = "geocode"
    /\ gReqs' = [gReqs EXCEPT ![r] =
          IF found
          THEN [@ EXCEPT !.pc = "registry", !.registryCalls = 3]
          ELSE [@ EXCEPT !.pc = "done", !.servedAt = now, !.doneAt = DoneCount + 1,
                         !.response = NoResponse]]
    /\ UNCHANGED <<now, cache, notRoute>>

\* fetchHospitalsByAddress returns (the items, or [] when the registry calls
\* failed): map, sort, remove duplicates, store in the cache, answer
RegistryReturns(r, ok) ==
    /\ r \in 1..Len(gReqs)
    /\ gReqs[r].pc = "registry"
    /\ LET hospitals == IF ok THEN RegistryItems ELSE <<>>
           uniquePlaces == RemoveDuplicatesByCoords(SortByDistance(MapItems(hospitals, now)))
       IN /\ cache' = CacheAfterSet(cache, gReqs[r].key, uniquePlaces, now, LIST_MAX_SIZE)
          /\ gReqs' = [gReqs EXCEPT ![r] =
                [@ EXCEPT !.pc = "done", !.servedAt = now, !.doneAt = DoneCount + 1,
                          !.upstreamFailed = ~ok,
                          !.response = [success |-> TRUE, cached |-> FALSE,
                                        count |-> Len(uniquePlaces), data |-> uniquePlaces]]]
    /\ UNCHANGED <<now, notRoute>>

\* time passes
TickRoute ==
    /\ now + RouteTickMs <= RouteStart + MaxRouteTicks * RouteTickMs
    /\ now' = now + RouteTickMs
    /\ UNCHANGED <<cache, gReqs, notRoute>>

NextRoute ==
    \/ \E lat \in LatsTried, lng \in LngsTried : GetStart(lat, lng)
    \/ \E r \in 1..Len(gReqs), found \in BOOLEAN : GeocodeReturns(r, found)
    \/ \E r \in 1..Len(gReqs), ok \in BOOLEAN : RegistryReturns(r, ok)
    \/ TickRoute

SpecRoute == InitRoute /\ [][NextRoute]_vars

(***************************************************************************)
(* fetchWithPagination (apiUtils.ts) and fetchHospitalList (route.ts)      *)
(***************************************************************************)
\* const numOfRows = 500; const maxItems = 2000; of fetchHospitalList
HOSPITAL_NUM_OF_ROWS == 500
HOSPITAL_MAX_ITEMS == 2000

\* the numOfRows of the request (150 and 500 are the clients' values), the
\* maxItems of the call (300 is the caller's) and the upstream's totalCount
NumOfRowsTried == {150, 500}
MaxItemsTried == {300, 1000}
TotalCounts == {0, 100, 150, 400, 500, 1000, 2500}

notPage == <<now, cacheVars, retryVars, hoursVars, testVars, placesVars, gReqs, deptVars>>

\* Math.ceil(a / b), for b > 0
Ceil(a, b) == (a + b - 1) \div b

\* the number of items of page pageNo of a list of total items, asked for in
\* pages of urlRows rows
UpstreamPage(urlRows, total, pageNo) == Max(0, Min(urlRows, total - (pageNo - 1) * urlRows))

\* Math.ceil(Math.min(totalCount, maxItems) / numOfRows)
TotalPages(totalCount, maxItems, numOfRows) == Ceil(Min(totalCount, maxItems), numOfRows)

RECURSIVE SumItems(_)
\* [...firstItems, ...restItems.flat()].length
SumItems(pages) ==
    IF pages = <<>> THEN 0
    ELSE pages[Len(pages)].items + SumItems(SubSeq(pages, 1, Len(pages) - 1))

Pending == [state |-> "pending", items |-> 0]

\* the calls made: fetchWithPagination(url, numOfRows, maxItems) with the url's
\* numOfRows the same numOfRows, as fetchPharmaciesByAddress calls it, and
\* fetchHospitalList(url) with the url's numOfRows taken from the request
PaginationCalls ==
    { [fn |-> "fetchWithPagination", urlRows |-> n, numOfRows |-> n, maxItems |-> mx,
       totalCount |-> t] : n \in NumOfRowsTried, mx \in MaxItemsTried, t \in TotalCounts }
    \cup
    { [fn |-> "fetchHospitalList", urlRows |-> n, numOfRows |-> HOSPITAL_NUM_OF_ROWS,
       maxItems |-> HOSPITAL_MAX_ITEMS, totalCount |-> t] :
       n \in NumOfRowsTried, t \in TotalCounts }

InitPage ==
    /\ now = 0
    /\ InitCacheVars
    /\ IdleRetryVars
    /\ IdleHoursVars
    /\ IdleTestVars
    /\ InitPlacesVars
    /\ IdleRouteVars
    /\ InitDeptVars
    /\ pgIn \in PaginationCalls
    /\ pgPc = "first"
    /\ pgPages = <<Pending>>
    /\ pgResult = -1

\* the first page request settles. Not ok, an error body or an exception: [] is
\* returned. Otherwise the first items are returned when totalCount is not
\* more, and else the requests of pages 2..totalPages are started (with no such
\* page, Promise.all([]) resolves and the first items are returned).
FirstPageReturns(ok) ==
    /\ pgPc = "first"
    /\ IF ~ok
       THEN /\ pgPages' = <<[state |-> "failed", items |-> 0]>>
            /\ pgPc' = "done"
            /\ pgResult' = 0
       ELSE LET firstItems == UpstreamPage(pgIn.urlRows, pgIn.totalCount, 1)
                first == [state |-> "ok", items |-> firstItems]
                totalPages == TotalPages(pgIn.totalCount, pgIn.maxItems, pgIn.numOfRows)
            IN IF pgIn.totalCount <= firstItems \/ totalPages < 2
               THEN /\ pgPages' = <<first>>
                    /\ pgPc' = "done"
                    /\ pgResult' = firstItems
               ELSE /\ pgPages' = <<first>> \o [p \in 1..(totalPages - 1) |-> Pending]
                    /\ pgPc' = "pages"
                    /\ pgResult' = -1
    /\ UNCHANGED <<pgIn, notPage>>

\* the request of page pageNo settles, with the page's items or (caught) with [];
\* when it is the last one to settle Promise.all resolves and the items are returned
PageReturns(pageNo, ok) ==
    /\ pgPc = "pages"
    /\ pageNo \in 2..Len(pgPages)
    /\ pgPages[pageNo].state = "pending"
    /\ LET settled == IF ok
                      THEN [state |-> "ok",
                            items |-> UpstreamPage(pgIn.urlRows, pgIn.totalCount, pageNo)]
                      ELSE [state |-> "failed", items |-> 0]
           after == [pgPages EXCEPT ![pageNo] = settled]
       IN /\ pgPages' = after
          /\ IF \A p \in 1..Len(after) : after[p].state # "pending"
             THEN pgPc' = "done" /\ pgResult' = SumItems(after)
             ELSE UNCHANGED <<pgPc, pgResult>>
    /\ UNCHANGED <<pgIn, notPage>>

NextPage ==
    \/ \E ok \in BOOLEAN : FirstPageReturns(ok)
    \/ \E pageNo \in 2..Len(pgPages), ok \in BOOLEAN : PageReturns(pageNo, ok)

SpecPage == InitPage /\ [][NextPage]_vars

\* C1: the cache is bounded: after any sequence of set, get and clear calls
\* size() is at most maxSize.
C1_SizeBounded == CacheSize(cache) <= maxSize

\* C2: get(key) returns the stored data only while the time elapsed since that
\* key's last set is within the TTL; a get made after the TTL has elapsed returns
\* null and removes the entry, and every later get of that key returns null until
\* the next set of that key.
C2_TtlGet ==
    lastOp.op = "get" =>
        LET k == lastOp.key
            age == lastOp.at - lastSet[k].time
        IN /\ lastOp.result # Null =>
                /\ lastSet[k] # NoSet
                /\ age <= ttlMs
                /\ lastOp.result = lastSet[k].data
           /\ (lastSet[k] = NoSet \/ age > ttlMs) =>
                /\ lastOp.result = Null
                /\ ~MapHas(cache, k)
           /\ lastOp.expiredBefore => lastOp.result = Null

\* C2 witness: a get of a key that an earlier get had already found expired,
\* with no set in between, returned null
C2_Witness ==
    /\ lastOp.op = "get"
    /\ lastOp.expiredBefore
    /\ lastSet[lastOp.key] # NoSet
    /\ lastOp.result = Null

\* C3: fetchWithRetry always terminates and never makes more than
\* maxRetries + 1 fetch attempts, whatever the outcome of each attempt.
C3_BoundedAndTerminates ==
    /\ [](fetchCalls <= rOpts.maxRetries + 1)
    /\ <>RetryDone

\* C3 witness: the call ended by throwing after maxRetries + 1 attempts that
\* failed in different ways
C3_Witness ==
    /\ rPc = "thrown"
    /\ rOpts.maxRetries = MaxRetriesTried
    /\ fetchCalls = rOpts.maxRetries + 1
    /\ \E i, j \in 1..Len(outcomes) : outcomes[i].kind = "5xx" /\ outcomes[j].kind = "neterr"

\* C4: the wait inserted after the k-th failed attempt is retryDelay * k, each
\* wait is strictly longer than the one before, every failed attempt but the last
\* permitted one is followed by a wait, and no wait follows the last permitted
\* attempt.
C4_Backoff ==
    /\ Len(waits) <= rOpts.maxRetries
    /\ \A k \in 1..Len(waits) :
          /\ waits[k] = [after |-> k, ms |-> rOpts.retryDelay * k]
          /\ k > 1 => waits[k].ms > waits[k - 1].ms
    /\ rPc \in {"fetch", "delay"} => Len(waits) = Len(outcomes)
    /\ RetryDone => Len(waits) = Len(outcomes) - 1

\* C4 witness: a call that waited twice, the second time for 2 * retryDelay
C4_Witness ==
    /\ RetryDone
    /\ Len(waits) >= 2
    /\ waits[2].ms = 2 * rOpts.retryDelay

\* C5: an attempt whose fetch has not responded within timeout ms is aborted and
\* handled like any other failed attempt: it is retried (after the wait) if
\* attempts remain, otherwise its error is thrown to the caller.
C5_TimeoutHandled ==
    /\ rPc = "fetch" => elapsed <= rOpts.timeout
    /\ \A i \in 1..Len(outcomes) :
          /\ outcomes[i].kind = "timeout" <=> outcomes[i].ms >= rOpts.timeout
          /\ outcomes[i].kind = "timeout" =>
                IF i <= rOpts.maxRetries
                THEN /\ i <= Len(waits)
                     /\ waits[i] = [after |-> i, ms |-> rOpts.retryDelay * i]
                     /\ ~(RetryDone /\ Len(outcomes) = i)
                ELSE /\ i = Len(outcomes)
                     /\ rPc = "thrown"
                     /\ rResult.error = "AbortError"

\* C5 witness: one attempt timed out and was retried, the last attempt timed out
\* too and its AbortError was thrown
C5_Witness ==
    /\ rPc = "thrown"
    /\ rResult.error = "AbortError"
    /\ Len(outcomes) >= 2
    /\ outcomes[1].kind = "timeout"
    /\ outcomes[Len(outcomes)].kind = "timeout"

\* minutes since midnight of a field's time of day
MinutesOf(f) == f.h * 60 + f.m

\* C6: with both times of today present (string or number), getOpenStatus returns
\* 'open' exactly when S <= t < E if S < E, and exactly when t >= S or t < E if
\* E <= S; otherwise it returns 'closed'.
C6_OpenExactly ==
    (hPc = "done" /\ hStart.kind # "undef" /\ hEnd.kind # "undef") =>
        LET S == MinutesOf(hStart)
            E == MinutesOf(hEnd)
            inside == IF S < E THEN S <= hNow /\ hNow < E ELSE hNow >= S \/ hNow < E
        IN hResult = IF inside THEN "open" ELSE "closed"

\* C10: the test place built as 'closed one hour ago' is computed as
\* isOpen = false / openStatus = 'closed' for every current minute.
C10_ClosedPharmacyClosed ==
    tPc = "done" =>
        tResults["test_pharmacy_closed"] = [isOpen |-> FALSE, openStatus |-> "closed"]

C8_CacheHit ==
    \A r \in 1..Len(gReqs) :
        gReqs[r].held =>
            /\ gReqs[r].pc = "done"
            /\ gReqs[r].response.success
            /\ gReqs[r].response.cached
            /\ gReqs[r].response.data = gReqs[r].heldData
            /\ gReqs[r].geocodeCalls = 0
            /\ gReqs[r].registryCalls = 0

\* C8 witness: a request answered from the entry that a request at other
\* coordinates with the same rounded key had stored
C8_Witness ==
    \E r, q \in 1..Len(gReqs) :
        /\ q < r
        /\ gReqs[r].held
        /\ gReqs[r].response.cached
        /\ gReqs[r].response.data # <<>>
        /\ gReqs[q].lat # gReqs[r].lat
        /\ gReqs[q].key = gReqs[r].key
        /\ ~gReqs[q].response.cached

\* today's opening hours of the registry item with this id contain the minute
InsideHoursToday(id, minute) ==
    \E i \in 1..Len(RegistryItems) :
        LET it == RegistryItems[i]
        IN /\ it.hpid = id
           /\ it.start.kind # "undef"
           /\ it.end.kind # "undef"
           /\ IF MinutesOf(it.start) < MinutesOf(it.end)
              THEN MinutesOf(it.start) <= minute /\ minute < MinutesOf(it.end)
              ELSE minute >= MinutesOf(it.start) \/ minute < MinutesOf(it.end)

\* C9: every place of a response has isOpen = true exactly when the time at
\* which the request is served lies inside the place's opening hours of today,
\* for cached responses as for fresh ones.
C9_IsOpenCurrent ==
    \A r \in 1..Len(gReqs) :
        (gReqs[r].pc = "done" /\ gReqs[r].response.success) =>
            \A i \in 1..Len(gReqs[r].response.data) :
                LET pl == gReqs[r].response.data[i]
                IN pl.isOpen <=> InsideHoursToday(pl.id, CurrentMinutes(gReqs[r].servedAt))

\* C11: a fetchPlaces call whose controller a newer call has aborted never
\* writes places or lastFetchedBounds and never sets the error message: the step
\* in which such a call ends leaves the three unchanged, whichever of the calls
\* settles first.
C11_SupersededWritesNothing ==
    [][\A r \in 1..Len(reqs) :
          (reqs[r].aborted /\ reqs[r].pc # "done" /\ reqs'[r].pc = "done") =>
              /\ places' = places
              /\ lastFetchedBounds' = lastFetchedBounds
              /\ error' = error]_vars

\* C11 witness: the first call ended after the second call had aborted it (only
\* its finally block can have reset isLoading), the second is still in flight,
\* and nothing was written
C11_Witness ==
    /\ Len(reqs) = 2
    /\ reqs[1].aborted
    /\ reqs[1].pc = "done"
    /\ reqs[2].pc \in {"fetch", "json"}
    /\ ~isLoading
    /\ places = 0
    /\ lastFetchedBounds = NoBounds
    /\ error = Null

\* C12: isLoading is true in every state in which a fetchPlaces request that has
\* not been aborted is still in flight.
C12_LoadingWhileInFlight ==
    \A r \in 1..Len(reqs) :
        (reqs[r].pc \in {"fetch", "json"} /\ ~reqs[r].aborted) => isLoading

\* C13: once every debounce timer has fired and every request has completed (the
\* last one without an error), the places shown were fetched with the selected
\* department: lastFetchedDepartment equals department.
C13_DepartmentCurrent ==
    (/\ timers = {}
     /\ \A r \in 1..Len(reqs) : reqs[r].pc = "done"
     /\ places # 0
     /\ error = Null)
        => lastFetchedDepartment = department

\* C14: fetchWithPagination never returns more than maxItems items.
C14_AtMostMaxItems ==
    (pgIn.fn = "fetchWithPagination" /\ pgPc = "done") => pgResult <= pgIn.maxItems

\* C15: when every page request succeeds, fetchHospitalList returns
\* min(totalCount, 2000) items, whatever numOfRows its url carries.
C15_HospitalListComplete ==
    (/\ pgIn.fn = "fetchHospitalList"
     /\ pgPc = "done"
     /\ \A p \in 1..Len(pgPages) : pgPages[p].state = "ok")
        => pgResult = Min(pgIn.totalCount, HOSPITAL_MAX_ITEMS)

\* request r is the next request for the key of request q after q was answered:
\* it started after that, and between the two no request for the key was started
\* or answered
NextForSameKey(q, r) ==
    /\ gReqs[q].pc = "done"
    /\ gReqs[r].key = gReqs[q].key
    /\ gReqs[q].doneAt <= gReqs[r].startAt
    /\ \A o \in 1..Len(gReqs) :
          (o \notin {q, r} /\ gReqs[o].key = gReqs[q].key) =>
              /\ ~(gReqs[q].doneAt <= gReqs[o].startAt /\ o < r)
              /\ ~(gReqs[o].pc = "done" /\ gReqs[q].doneAt < gReqs[o].doneAt
                   /\ gReqs[o].doneAt <= gReqs[r].startAt)

\* C16: after a request whose registry calls failed, the next request for the
\* same cache key contacts the upstream again and is not answered from
\* hospitalListCache.
C16_FailureNotCached ==
    \A q, r \in 1..Len(gReqs) :
        (gReqs[q].upstreamFailed /\ NextForSameKey(q, r)) =>
            /\ ~gReqs[r].response.cached
            /\ gReqs[r].geocodeCalls > 0

\* C17: when MemoryCache.set evicts because the cache is full, the entry it
\* removes is the oldest one: its timestamp is the smallest among the stored
\* entries. (A key other than the one set that is gone after a set was evicted.)
C17_EvictsOldest ==
    [][lastOp'.op = "set" =>
          \A i \in 1..Len(cache) :
              (cache[i].key # lastOp'.key /\ ~MapHas(cache', cache[i].key)) =>
                  \A j \in 1..Len(cache) : cache[i].timestamp <= cache[j].timestamp]_vars

\* C18: MemoryCache.set(k, v) for a key k that is already stored only replaces
\* k's entry: every key stored before the call is still stored after it, also
\* when the cache is full.
C18_SetExistingKeepsOthers ==
    [][(lastOp'.op = "set" /\ MapHas(cache, lastOp'.key)) =>
          \A i \in 1..Len(cache) : MapHas(cache', cache[i].key)]_vars

====
